---- MODULE Spec2Model ----
(***************************************************************************)
(* Job dispatch over a RabbitMQ work queue: the producer                   *)
(* (rabbitmq_client.py, aws.py), the consumers                             *)
(* (rabbitmq_receiver_with_pipeline.py) and the callback capture server    *)
(* (sm_http_bucket_server.py).                                             *)
(***************************************************************************)
EXTENDS Integers, Sequences, FiniteSets, TLC

\* ---------------------------------------------------------------- bounds
NumConsumers == 2
MaxObjects == 2
MaxFails == 2
MaxPosts == 102
NumHandlers == 2
MaxForeign == 2

\* ------------------------------------------------------ program constants
\* channel.set_qos(prefetch_count=1)
PrefetchCount == 1
\* if len(REQUESTS) > 100: REQUESTS.pop()
MaxRequests == 100

Consumers == 1..NumConsumers
\* the clients of the callback server that can have a request under way
Handlers == 1..NumHandlers
Signals == {"SIGINT", "SIGTERM"}

Min(a, b) == IF a < b THEN a ELSE b

\* ------------------------------------------------------------ pure helpers
DigitChars == <<"0", "1", "2", "3", "4", "5", "6", "7", "8", "9">>

\* str(messageNumber): the decimal digits of a positive integer
RECURSIVE str(_)
str(n) ==
    IF n < 10 THEN <<DigitChars[n + 1]>>
    ELSE str(n \div 10) \o <<DigitChars[(n % 10) + 1]>>

\* keys(bucket_name, prefix): the object keys, in the paginator's order
keys(n) == [i \in 1..n |-> i]

\* s3_client.generate_presigned_url("get_object", ..., ExpiresIn=expiration)
generate_presigned_url(key) == [key |-> key, expires |-> 3600]

\* A variant that gives up at the first ClientError instead of skipping the key.
RECURSIVE get_s3_object_urls_abort(_, _)
get_s3_object_urls_abort(ks, failing) ==
    IF ks = <<>> \/ Head(ks) \in failing THEN <<>>
    ELSE <<generate_presigned_url(Head(ks))>>
             \o get_s3_object_urls_abort(Tail(ks), failing)

\* get_s3_object_urls: one presigned URL per key, in order; a key whose signing
\* raises ClientError (the keys in `failing`) is logged and left out.
RECURSIVE get_s3_object_urls(_, _)
get_s3_object_urls(ks, failing) ==
    IF ks = <<>> THEN <<>>
    ELSE (IF Head(ks) \in failing THEN <<>>
          ELSE <<generate_presigned_url(Head(ks))>>)
             \o get_s3_object_urls(Tail(ks), failing)

\* json.dumps(messageBody): the text is the key/value pairs in insertion order
json_dumps(jobId, url) == <<<<"jobId", jobId>>, <<"url", url>>>>

\* json.loads raises JSONDecodeError on a text that is not JSON: here, a text
\* with a key that has no value
parses(text) == \A i \in DOMAIN text : Len(text[i]) = 2

\* json.loads(message): the mapping the pairs of the text spell
json_loads(text) ==
    [k \in {text[i][1] : i \in DOMAIN text} |->
        text[CHOOSE i \in DOMAIN text :
                /\ text[i][1] = k
                /\ \A j \in DOMAIN text : text[j][1] = k => j <= i][2]]

\* a job_config that leaves the fetch URL out
job_config_no_url(url, callback_server) ==
    [type |-> "transcription",
     language |-> "en",
     fetch_url |-> [key |-> 0, expires |-> 0],
     notify_url |-> callback_server,
     contents |-> <<"transcript.txt", "transcript.json-v2">>]

\* the job_config dictionary of start_transcription
job_config(url, callback_server) ==
    [type |-> "transcription",
     language |-> "en",
     fetch_url |-> url,
     notify_url |-> callback_server,
     contents |-> <<"transcript.txt", "transcript.json-v2">>]

NoUrl == [key |-> 0, expires |-> 0]
NoConfig ==
    [type |-> "none", language |-> "", fetch_url |-> NoUrl,
     notify_url |-> "", contents |-> <<>>]
NoMsg == <<>>
CallbackServer == "http://callback-server:8080"

\* retry_policy of the consumer, abandoning after the second failure
retry_policy_abandon(fails) == <<fails >= 2, 10>>

\* retry_policy(info) -> (abandon, delay): never abandon, wait 10 seconds
retry_policy(fails) == <<FALSE, 10>>

\* pika's connection.close(): an open connection becomes closed; closing a
\* closed one raises ConnectionWrongStateError, which _shutdown swallows
close(conn) == IF conn = "open" THEN "closed" ELSE conn

\* _shutdown(connection) of the producer: close the connection if there is
\* one, then sys.exit(0) -> os._exit(0)
shutdown(connection) ==
    [conn |-> IF connection = "none" THEN "none" ELSE close(connection),
     exit |-> 0]

\* channel.queue_declare(queue=rabbit_queue_name): pika's defaults
ProducerQueueArgs == [durable |-> FALSE, exclusive |-> FALSE, auto_delete |-> FALSE]

\* channel.declare_queue(rabbit_queue_name): aio_pika's defaults
ConsumerQueueArgs == [durable |-> FALSE, exclusive |-> FALSE, auto_delete |-> FALSE]

\* a declaration that creates the queue afresh, dropping what it held
queue_declare_purge(declared, contents, args) ==
    [ok |-> TRUE, declared |-> TRUE, contents |-> <<>>]

\* queue.declare as the two programs issue it (not passive): the queue is
\* created if it does not exist; if it exists the declaration succeeds when
\* its arguments are those the queue was declared with by either program,
\* and fails the channel otherwise; the messages are left as they are.
queue_declare(declared, contents, args) ==
    [ok |-> ~declared \/ \A a \in {ProducerQueueArgs, ConsumerQueueArgs} : a = args,
     declared |-> TRUE,
     contents |-> contents]

\* ------------------------------------------------------------------ state
VARIABLES
    \* broker
    brokerUp, queueDeclared, queue, unacked, prefetch,
    \* producer
    bucket, ppc, pconn, pexit, pcause, messageNumber, urls, failedKeys, published,
    \* consumers
    cpc, cconn, cexit, ccause, fails, cur, config, workers, rc, steps,
    \* callback server
    REQUESTS, auth, authArg, captures, response, status, hpc

brokerVars == <<brokerUp, queueDeclared, queue, unacked, prefetch>>
prodVars == <<bucket, ppc, pconn, pexit, pcause, messageNumber, urls, failedKeys, published>>
consProcVars == <<cpc, cconn, cexit, ccause, fails>>
consJobVars == <<cur, config, workers, rc, steps>>
consVars == <<consProcVars, consJobVars>>
sinkVars == <<REQUESTS, auth, authArg, captures, response, status, hpc>>
vars == <<brokerVars, prodVars, consVars, sinkVars>>

\* The producer and the consumers as they are when started, on a bucket of
\* `n` objects.
InitClients(n) ==
    /\ queueDeclared = FALSE
    /\ queue = <<>>
    /\ unacked = [c \in Consumers |-> <<>>]
    /\ prefetch = [c \in Consumers |-> 0]
    /\ bucket = n
    /\ ppc = "sleep"
    /\ pconn = "none"
    /\ pexit = -1
    /\ pcause = "none"
    /\ messageNumber = 0
    /\ urls = <<>>
    /\ failedKeys = {}
    /\ published = <<>>
    /\ cpc = [c \in Consumers |-> "sleep"]
    /\ cconn = [c \in Consumers |-> "none"]
    /\ cexit = [c \in Consumers |-> -1]
    /\ ccause = [c \in Consumers |-> "none"]
    /\ fails = [c \in Consumers |-> 0]
    /\ cur = [c \in Consumers |-> NoMsg]
    /\ config = [c \in Consumers |-> NoConfig]
    /\ workers = [c \in Consumers |-> {}]
    /\ rc = [c \in Consumers |-> 0]
    /\ steps = [c \in Consumers |-> <<>>]

\* APP.config["auth"] as run_server(run_async=..., auth=token) sets it.  The
\* blocking call stores its argument.  With run_async the server thread is
\* started as run_server(host, port, run_async=False, silent): auth is not
\* passed on, so the thread stores the default, None, written "" here (both
\* are false in `if APP.config["auth"]`).
run_server(run_async, token) == IF run_async THEN "" ELSE token

\* The callback server as run_server(run_async=..., auth=token) leaves it:
\* REQUESTS = [], no request under way
InitServer(run_async, token) ==
    /\ REQUESTS = <<>>
    /\ auth = run_server(run_async, token)
    /\ authArg = token
    /\ captures = 0
    /\ hpc = [h \in Handlers |-> "idle"]
    /\ response = [at |-> 0, body |-> <<>>]
    /\ status = 0

\* The broker is already accepting connections when the programs start.
Init ==
    /\ brokerUp = TRUE
    /\ \E n \in 0..MaxObjects : InitClients(n)
    /\ InitServer(FALSE, "")

\* The broker and the programs start together: the broker is not ready yet.
ConnInit ==
    /\ brokerUp = FALSE
    /\ \E n \in 0..MaxObjects : InitClients(n)
    /\ InitServer(FALSE, "")

\* ----------------------------------------------------------------- broker
\* The broker finishes starting and accepts connections.
BrokerStart ==
    /\ ~brokerUp
    /\ brokerUp' = TRUE
    /\ UNCHANGED <<queueDeclared, queue, unacked, prefetch>>
    /\ UNCHANGED <<prodVars, consVars, sinkVars>>

\* The message bodies another client of the broker can publish to the queue:
\* a job, a text that is not JSON, an object without jobId, one without url.
ForeignBodies ==
    {json_dumps(str(7), generate_presigned_url(7)),
     <<<<"jobId">>>>,
     <<<<"url", generate_presigned_url(8)>>>>,
     <<<<"jobId", str(9)>>>>}

\* Another client publishes a body to the declared queue; the consumer takes
\* message.body as it comes.
ForeignPublish(body) ==
    /\ queueDeclared
    /\ Len(queue) < MaxForeign
    /\ queue' = Append(queue, body)
    /\ UNCHANGED <<brokerUp, queueDeclared, unacked, prefetch>>
    /\ UNCHANGED <<prodVars, consVars, sinkVars>>

\* --------------------------------------------------------------- producer
ProducerExit(code, cause, conn) ==
    /\ ppc' = "exited"
    /\ pexit' = code
    /\ pcause' = cause
    /\ pconn' = conn

\* finally: _shutdown(connection): close the connection, then os._exit(0)
ProducerFinally(cause) ==
    ProducerExit(shutdown(pconn).exit, cause, shutdown(pconn).conn)

\* time.sleep(15) is over; main() calls make_connection
ProducerWake ==
    /\ ppc = "sleep"
    /\ ppc' = "connecting"
    /\ UNCHANGED <<bucket, pconn, pexit, pcause, messageNumber, urls, failedKeys, published>>
    /\ UNCHANGED <<brokerVars, consVars, sinkVars>>

\* make_connection under @retry(AMQPConnectionError, delay=10): one attempt
ProducerConnect ==
    /\ ppc = "connecting"
    /\ IF brokerUp
       THEN pconn' = "open" /\ ppc' = "declare"
       ELSE pconn' = pconn /\ ppc' = "retry_wait"
    /\ UNCHANGED <<bucket, pexit, pcause, messageNumber, urls, failedKeys, published>>
    /\ UNCHANGED <<brokerVars, consVars, sinkVars>>

\* the decorator's sleep(delay) between two attempts
ProducerRetryWait ==
    /\ ppc = "retry_wait"
    /\ ppc' = "connecting"
    /\ UNCHANGED <<bucket, pconn, pexit, pcause, messageNumber, urls, failedKeys, published>>
    /\ UNCHANGED <<brokerVars, consVars, sinkVars>>

\* connection.channel(); channel.queue_declare(queue); messageNumber = 1
ProducerDeclare ==
    /\ ppc = "declare"
    /\ LET declare == queue_declare(queueDeclared, queue, ProducerQueueArgs)
       IN  IF declare.ok
           THEN /\ queueDeclared' = declare.declared
                /\ queue' = declare.contents
                /\ messageNumber' = 1
                /\ ppc' = "list_log"
                /\ UNCHANGED <<pconn, pexit, pcause>>
           ELSE /\ ProducerExit(1, "error", pconn)
                /\ UNCHANGED <<queueDeclared, queue, messageNumber>>
    /\ UNCHANGED <<brokerUp, unacked, prefetch>>
    /\ UNCHANGED <<bucket, urls, failedKeys, published>>
    /\ UNCHANGED <<consVars, sinkVars>>

\* logging.info(aws.get_s3_object_urls(...)): the first enumeration, whose
\* result is only logged; a listing error leaves through finally
ProducerListLog ==
    /\ ppc = "list_log"
    /\ \E ok \in BOOLEAN :
          IF ok
          THEN /\ ppc' = "list"
               /\ UNCHANGED <<pconn, pexit, pcause>>
          ELSE ProducerFinally("error")
    /\ UNCHANGED <<bucket, messageNumber, urls, failedKeys, published>>
    /\ UNCHANGED <<brokerVars, consVars, sinkVars>>

\* for url in aws.get_s3_object_urls(...): the second enumeration
ProducerList ==
    /\ ppc = "list"
    /\ \E ok \in BOOLEAN, failing \in SUBSET (1..bucket) :
          IF ok
          THEN /\ urls' = get_s3_object_urls(keys(bucket), failing)
               /\ failedKeys' = failing
               /\ ppc' = "publish"
               /\ UNCHANGED <<pconn, pexit, pcause>>
          ELSE /\ failing = {}
               /\ UNCHANGED <<urls, failedKeys>>
               /\ ProducerFinally("error")
    /\ UNCHANGED <<bucket, messageNumber, published>>
    /\ UNCHANGED <<brokerVars, consVars, sinkVars>>

\* one iteration of the loop: build the body, basic_publish, messageNumber += 1;
\* basic_publish raising leaves through finally
ProducerPublish ==
    /\ ppc = "publish"
    /\ urls # <<>>
    /\ \E ok \in BOOLEAN :
          IF ok
          THEN LET body == json_dumps(str(messageNumber), Head(urls)) IN
               /\ queue' = Append(queue, body)
               /\ published' = Append(published, body)
               /\ messageNumber' = messageNumber + 1
               /\ urls' = Tail(urls)
               /\ UNCHANGED <<ppc, pconn, pexit, pcause>>
          ELSE /\ ProducerFinally("error")
               /\ UNCHANGED <<queue, published, messageNumber, urls>>
    /\ UNCHANGED <<brokerUp, queueDeclared, unacked, prefetch, bucket, failedKeys>>
    /\ UNCHANGED <<consVars, sinkVars>>

\* the loop is exhausted: finally: _shutdown(connection)
ProducerFinish ==
    /\ ppc = "publish"
    /\ urls = <<>>
    /\ ProducerFinally("completed")
    /\ UNCHANGED <<bucket, messageNumber, urls, failedKeys, published>>
    /\ UNCHANGED <<brokerVars, consVars, sinkVars>>

\* the positions of main() inside try: ... finally:
InTry == ppc \in {"list_log", "list", "publish"}

\* SIGINT raises KeyboardInterrupt.  SIGTERM calls the handler registered by
\* signal.signal(SIGTERM, _shutdown) as _shutdown(signum, frame): two
\* arguments for a function of one parameter, so the call itself raises
\* TypeError.  Either exception is raised where main() stands: inside the try
\* block it ends in finally: _shutdown(connection); outside it nothing
\* catches it, the connection is left as it is and the interpreter exits
\* non-zero (130 for KeyboardInterrupt, 1 for TypeError).
ProducerSignal(sig) ==
    /\ ppc # "exited"
    /\ IF InTry
       THEN ProducerFinally("signal")
       ELSE ProducerExit(IF sig = "SIGINT" THEN 130 ELSE 1, "signal", pconn)
    /\ UNCHANGED <<bucket, messageNumber, urls, failedKeys, published>>
    /\ UNCHANGED <<brokerVars, consVars, sinkVars>>

\* -------------------------------------------------------------- consumers
\* bytes.decode(): raises UnicodeDecodeError on bytes that are not UTF-8
decode(out) == [raises |-> out = "invalid"]

\* a process end after which the broker forgets the unacknowledged deliveries
ConsumerExitLoses(c, code, cause) ==
    /\ cpc' = [cpc EXCEPT ![c] = "exited"]
    /\ cexit' = [cexit EXCEPT ![c] = code]
    /\ ccause' = [ccause EXCEPT ![c] = cause]
    /\ fails' = [fails EXCEPT ![c] = 0]
    /\ cur' = [cur EXCEPT ![c] = NoMsg]
    /\ rc' = [rc EXCEPT ![c] = 0]
    /\ steps' = [steps EXCEPT ![c] = <<>>]
    /\ unacked' = [unacked EXCEPT ![c] = <<>>]
    /\ UNCHANGED <<brokerUp, queueDeclared, queue, prefetch, cconn>>

\* The process ends (exception out of main, or os._exit): its socket closes and
\* the broker returns the deliveries it had not acknowledged to the queue.
\* The locals of the coroutines go with the process; the config file and a
\* worker still running stay.
ConsumerExit(c, code, cause) ==
    /\ cpc' = [cpc EXCEPT ![c] = "exited"]
    /\ cexit' = [cexit EXCEPT ![c] = code]
    /\ ccause' = [ccause EXCEPT ![c] = cause]
    /\ fails' = [fails EXCEPT ![c] = 0]
    /\ cur' = [cur EXCEPT ![c] = NoMsg]
    /\ rc' = [rc EXCEPT ![c] = 0]
    /\ steps' = [steps EXCEPT ![c] = <<>>]
    /\ queue' = unacked[c] \o queue
    /\ unacked' = [unacked EXCEPT ![c] = <<>>]
    /\ UNCHANGED <<brokerUp, queueDeclared, prefetch, cconn>>

\* time.sleep(15) is over; the signal handlers are added and the loop runs main()
ConsumerWake(c) ==
    /\ cpc[c] = "sleep"
    /\ cpc' = [cpc EXCEPT ![c] = "connecting"]
    /\ UNCHANGED <<cconn, cexit, ccause, fails, consJobVars>>
    /\ UNCHANGED <<brokerVars, prodVars, sinkVars>>

\* make_connection under @retry(retry_policy): one attempt; on failure the
\* policy decides between abandoning (the exception is raised) and waiting
ConsumerConnect(c) ==
    /\ cpc[c] = "connecting"
    /\ IF brokerUp
       THEN /\ cconn' = [cconn EXCEPT ![c] = "open"]
            /\ cpc' = [cpc EXCEPT ![c] = "channel"]
            /\ fails' = [fails EXCEPT ![c] = 0]
            /\ UNCHANGED <<cexit, ccause, cur, rc, steps, brokerVars>>
       ELSE IF retry_policy(fails[c] + 1)[1]
            THEN ConsumerExit(c, 1, "connfail")
            ELSE /\ cpc' = [cpc EXCEPT ![c] = "retry_wait"]
                 /\ fails' = [fails EXCEPT ![c] = Min(fails[c] + 1, MaxFails)]
                 /\ UNCHANGED <<cconn, cexit, ccause, cur, rc, steps, brokerVars>>
    /\ UNCHANGED <<config, workers>>
    /\ UNCHANGED <<prodVars, sinkVars>>

\* asyncio.sleep(delay) between two attempts
ConsumerRetryWait(c) ==
    /\ cpc[c] = "retry_wait"
    /\ cpc' = [cpc EXCEPT ![c] = "connecting"]
    /\ UNCHANGED <<cconn, cexit, ccause, fails, consJobVars>>
    /\ UNCHANGED <<brokerVars, prodVars, sinkVars>>

\* the channel opened without set_qos: the default, 0, is no limit
set_qos_omitted(c) == prefetch

\* channel.set_qos(prefetch_count=1)
set_qos(c) == [prefetch EXCEPT ![c] = PrefetchCount]

\* connection.channel(); channel.set_qos(prefetch_count=1);
\* channel.declare_queue(name); queue.iterator(): the consumer is subscribed
ConsumerSubscribe(c) ==
    /\ cpc[c] = "channel"
    /\ LET declare == queue_declare(queueDeclared, queue, ConsumerQueueArgs)
       IN  IF declare.ok
           THEN /\ prefetch' = set_qos(c)
                /\ queueDeclared' = declare.declared
                /\ queue' = declare.contents
                /\ cpc' = [cpc EXCEPT ![c] = "waiting"]
                /\ UNCHANGED <<brokerUp, unacked>>
                /\ UNCHANGED <<cconn, cexit, ccause, fails, consJobVars>>
           ELSE /\ ConsumerExit(c, 1, "error")
                /\ UNCHANGED <<config, workers>>
    /\ UNCHANGED <<prodVars, sinkVars>>

Subscribed(c) == cpc[c] \in {"waiting", "spawn", "worker", "log"}

\* a broker that hands out a copy and keeps the message queued
BrokerDeliverCopy(c) ==
    /\ Subscribed(c)
    /\ queue # <<>>
    /\ prefetch[c] = 0 \/ Len(unacked[c]) < prefetch[c]
    /\ unacked' = [unacked EXCEPT ![c] = Append(@, Head(queue))]
    /\ steps' = [steps EXCEPT ![c] = Append(@, "deliver")]
    /\ UNCHANGED <<brokerUp, queueDeclared, queue, prefetch>>
    /\ UNCHANGED <<consProcVars, cur, config, workers, rc>>
    /\ UNCHANGED <<prodVars, sinkVars>>

\* The broker hands the head of the queue to a subscribed consumer whose
\* unacknowledged deliveries are below its prefetch limit (0: no limit).
BrokerDeliver(c) ==
    /\ Subscribed(c)
    /\ queue # <<>>
    /\ prefetch[c] = 0 \/ Len(unacked[c]) < prefetch[c]
    /\ unacked' = [unacked EXCEPT ![c] = Append(@, Head(queue))]
    /\ queue' = Tail(queue)
    /\ steps' = [steps EXCEPT ![c] = Append(@, "deliver")]
    /\ UNCHANGED <<brokerUp, queueDeclared, prefetch>>
    /\ UNCHANGED <<consProcVars, cur, config, workers, rc>>
    /\ UNCHANGED <<prodVars, sinkVars>>

\* a handler that acknowledges a message it cannot read and goes on
ConsumerReceiveSkip(c) ==
    /\ cpc[c] = "waiting"
    /\ unacked[c] # <<>>
    /\ LET message == Head(unacked[c])
           message_content == json_loads(message)
       IN  IF parses(message) /\ {"jobId", "url"} \subseteq DOMAIN message_content
           THEN /\ cur' = [cur EXCEPT ![c] = message]
                /\ config' = [config EXCEPT ![c] =
                                 job_config(message_content["url"], CallbackServer)]
                /\ steps' = [steps EXCEPT ![c] = Append(@, "config")]
                /\ cpc' = [cpc EXCEPT ![c] = "spawn"]
                /\ UNCHANGED <<cconn, cexit, ccause, fails, rc, brokerVars>>
           ELSE /\ unacked' = [unacked EXCEPT ![c] = Tail(@)]
                /\ steps' = [steps EXCEPT ![c] = <<>>]
                /\ UNCHANGED <<brokerUp, queueDeclared, queue, prefetch>>
                /\ UNCHANGED <<consProcVars, cur, config, rc>>
    /\ UNCHANGED workers
    /\ UNCHANGED <<prodVars, sinkVars>>

\* async for message in queue_iter: callback(message) -> start_transcription:
\* json.loads, message_content["jobId"], the job_config with
\* message_content["url"], and the config file written in full; a text that
\* does not parse (JSONDecodeError) or lacks a key (KeyError) raises before
\* anything is written, and nothing catches the exception
ConsumerReceive(c) ==
    /\ cpc[c] = "waiting"
    /\ unacked[c] # <<>>
    /\ LET message == Head(unacked[c])
           message_content == json_loads(message)
       IN  IF parses(message) /\ {"jobId", "url"} \subseteq DOMAIN message_content
           THEN /\ cur' = [cur EXCEPT ![c] = message]
                /\ config' = [config EXCEPT ![c] =
                                 job_config(message_content["url"], CallbackServer)]
                /\ steps' = [steps EXCEPT ![c] = Append(@, "config")]
                /\ cpc' = [cpc EXCEPT ![c] = "spawn"]
                /\ UNCHANGED <<cconn, cexit, ccause, fails, rc, brokerVars>>
           ELSE /\ ConsumerExit(c, 1, "error")
                /\ UNCHANGED config
    /\ UNCHANGED workers
    /\ UNCHANGED <<prodVars, sinkVars>>

\* asyncio.create_subprocess_exec("pipeline", "--job-config", config_file):
\* the worker starts, or the spawn raises (no such executable)
ConsumerSpawn(c) ==
    /\ cpc[c] = "spawn"
    /\ \E ok \in BOOLEAN :
          IF ok
          THEN /\ workers' = [workers EXCEPT ![c] = @ \cup {cur[c]}]
               /\ steps' = [steps EXCEPT ![c] = Append(@, "start")]
               /\ cpc' = [cpc EXCEPT ![c] = "worker"]
               /\ UNCHANGED <<cconn, cexit, ccause, fails, cur, rc, brokerVars>>
          ELSE /\ ConsumerExit(c, 1, "spawn")
               /\ UNCHANGED workers
    /\ UNCHANGED config
    /\ UNCHANGED <<prodVars, sinkVars>>

\* pipeline.communicate() returns: the worker has exited with some status and
\* some captured output
WorkerExit(c) ==
    /\ cpc[c] = "worker"
    /\ \E code \in {0, 1} : rc' = [rc EXCEPT ![c] = code]
    /\ workers' = [workers EXCEPT ![c] = @ \ {cur[c]}]
    /\ steps' = [steps EXCEPT ![c] = Append(@, "exit")]
    /\ cpc' = [cpc EXCEPT ![c] = "log"]
    /\ UNCHANGED <<cconn, cexit, ccause, fails, cur, config>>
    /\ UNCHANGED <<brokerVars, prodVars, sinkVars>>

\* message.ack(): the broker forgets the delivery; the handler is over
Ack(c) ==
    /\ unacked' = [unacked EXCEPT ![c] = Tail(@)]
    /\ cur' = [cur EXCEPT ![c] = NoMsg]
    /\ rc' = [rc EXCEPT ![c] = 0]
    /\ steps' = [steps EXCEPT ![c] = <<>>]
    /\ cpc' = [cpc EXCEPT ![c] = "waiting"]
    /\ UNCHANGED <<brokerUp, queueDeclared, queue, prefetch>>
    /\ UNCHANGED <<cconn, cexit, ccause, fails>>

\* the acknowledgment sent without waiting for the worker to exit
ConsumerAckEarly(c) ==
    /\ cpc[c] \in {"worker", "log"}
    /\ Ack(c)
    /\ UNCHANGED <<config, workers>>
    /\ UNCHANGED <<prodVars, sinkVars>>

\* a handler that rejects the message with requeue when the worker failed
ConsumerAckOrNack(c) ==
    /\ cpc[c] = "log"
    /\ IF rc[c] # 0
       THEN /\ queue' = Append(queue, Head(unacked[c]))
            /\ unacked' = [unacked EXCEPT ![c] = Tail(@)]
            /\ cur' = [cur EXCEPT ![c] = NoMsg]
            /\ rc' = [rc EXCEPT ![c] = 0]
            /\ steps' = [steps EXCEPT ![c] = <<>>]
            /\ cpc' = [cpc EXCEPT ![c] = "waiting"]
            /\ UNCHANGED <<brokerUp, queueDeclared, prefetch>>
            /\ UNCHANGED <<cconn, cexit, ccause, fails>>
       ELSE Ack(c)
    /\ UNCHANGED <<config, workers>>
    /\ UNCHANGED <<prodVars, sinkVars>>

\* the rest of start_transcription and of callback: stdout.decode() and
\* stderr.decode() of the captured bytes `out` for the log (UnicodeDecodeError
\* leaves main), the exit code logged, then message.ack() and back to the
\* iterator
ConsumerAck(c) ==
    /\ cpc[c] = "log"
    /\ \E out \in {"empty", "text", "invalid"} :
          IF decode(out).raises
          THEN ConsumerExit(c, 1, "error")
          ELSE Ack(c)
    /\ UNCHANGED <<config, workers>>
    /\ UNCHANGED <<prodVars, sinkVars>>

\* _shutdown(loop) of the consumer, registered as add_signal_handler(sig,
\* _shutdown) and so called with loop = None: no loop is stopped, nothing is
\* closed, os._exit(0).  Before the handlers are added (during time.sleep(15))
\* SIGTERM kills the process and SIGINT raises KeyboardInterrupt.
ConsumerSignal(c, sig) ==
    /\ cpc[c] # "exited"
    /\ IF cpc[c] = "sleep"
       THEN ConsumerExit(c, IF sig = "SIGINT" THEN 130 ELSE 143, "signal")
       ELSE ConsumerExit(c, 0, "signal")
    /\ UNCHANGED <<config, workers>>
    /\ UNCHANGED <<prodVars, sinkVars>>

\* --------------------------------------------------------- callback server
NoHeader == <<>>
\* f"Bearer {auth_token}"
Bearer(token) == <<"Bearer", token>>
AuthHeaders == {NoHeader, Bearer("secret123"), Bearer("wrong"), <<"Basic", "secret123">>}
Methods == {"POST", "PUT"}
\* the query and headers of a capture request, as far as do_post_action goes:
\* no postnotifyaction flag; flag and the outbound GET answers; flag and the
\* outbound GET raises; flag without X-Action-Url; flag without the id parameter
NotifyCases == {"none", "ok", "neterror", "nourl", "noid"}

\* auth_middleware: with a token configured the Authorization header must be
\* exactly "Bearer <token>"; TRUE when the wrapped handler is called
auth_middleware(header) == auth = "" \/ header = Bearer(auth)

\* post_request up to do_post_action: args_dict["id"] raises KeyError without
\* the id parameter, requests.get raises on a network error; a missing
\* X-Action-Url only returns an error record
post_action_raises(notify) == notify \in {"neterror", "noid"}

\* a store that evicts the newest entry, REQUESTS.pop(0), when over the cap
store_pop_head(reqs, entry) ==
    LET inserted == <<entry>> \o reqs
    IN  IF Len(inserted) > MaxRequests THEN Tail(inserted) ELSE inserted

\* REQUESTS.insert(0, request); if len(REQUESTS) > 100: REQUESTS.pop()
store(reqs, entry) ==
    LET inserted == <<entry>> \o reqs
    IN  IF Len(inserted) > MaxRequests
        THEN SubSeq(inserted, 1, Len(inserted) - 1)
        ELSE inserted

\* POST / and PUT /.  A stored request is represented by its arrival number
\* among the stored requests.  The server runs threaded=False: one request is
\* handled at a time.
post_request(method, header, notify) ==
    /\ captures < MaxPosts
    /\ IF ~auth_middleware(header)
       THEN /\ status' = 403
            /\ UNCHANGED <<REQUESTS, captures>>
       ELSE IF post_action_raises(notify)
            THEN /\ status' = 500
                 /\ UNCHANGED <<REQUESTS, captures>>
            ELSE /\ REQUESTS' = store(REQUESTS, captures + 1)
                 /\ captures' = captures + 1
                 /\ status' = 200
    /\ UNCHANGED <<auth, authArg, response, hpc>>
    /\ UNCHANGED <<brokerVars, prodVars, consVars>>

\* GET /: flask.jsonify(REQUESTS), the list in its stored order
list_requests(header) ==
    /\ IF ~auth_middleware(header)
       THEN /\ status' = 403
            /\ UNCHANGED response
       ELSE /\ status' = 200
            /\ response' = [at |-> captures, body |-> REQUESTS]
    /\ UNCHANGED <<REQUESTS, auth, authArg, captures, hpc>>
    /\ UNCHANGED <<brokerVars, prodVars, consVars>>

\* The same handlers statement by statement, for requests that arrive while
\* another one is being handled.

\* a server started with threaded=True: one thread per request
threaded_true == TRUE

\* APP.run(host=host, port=port, debug=debug, threaded=False): the server has
\* one thread, which takes the next request when the handler of the one
\* before has returned
threaded == FALSE

\* REQUESTS.insert(0, request)
insert(reqs, entry) == <<entry>> \o reqs

\* if len(REQUESTS) > 100: REQUESTS.pop()
trim(reqs) ==
    IF Len(reqs) > MaxRequests THEN SubSeq(reqs, 1, Len(reqs) - 1) ELSE reqs

\* no handler other than h's is between two of its statements
Free(h) == threaded \/ \A g \in Handlers \ {h} : hpc[g] # "inserted"

\* a client sends a request; it waits on the listening socket
ClientSend(h, method) ==
    /\ hpc[h] = "idle"
    /\ method \in Methods => captures < MaxPosts
    /\ hpc' = [hpc EXCEPT ![h] = IF method = "GET" THEN "get" ELSE "post"]
    /\ UNCHANGED <<REQUESTS, auth, authArg, captures, response, status>>
    /\ UNCHANGED <<brokerVars, prodVars, consVars>>

\* post_request up to and including REQUESTS.insert(0, request)
PostInsert(h) ==
    /\ hpc[h] = "post"
    /\ Free(h)
    /\ \E header \in AuthHeaders, notify \in NotifyCases :
          IF ~auth_middleware(header)
          THEN /\ status' = 403
               /\ hpc' = [hpc EXCEPT ![h] = "idle"]
               /\ UNCHANGED <<REQUESTS, captures>>
          ELSE IF post_action_raises(notify)
               THEN /\ status' = 500
                    /\ hpc' = [hpc EXCEPT ![h] = "idle"]
                    /\ UNCHANGED <<REQUESTS, captures>>
               ELSE /\ REQUESTS' = insert(REQUESTS, captures + 1)
                    /\ captures' = captures + 1
                    /\ hpc' = [hpc EXCEPT ![h] = "inserted"]
                    /\ UNCHANGED status
    /\ UNCHANGED <<auth, authArg, response>>
    /\ UNCHANGED <<brokerVars, prodVars, consVars>>

\* the rest of post_request: the trim and the answer
PostTrim(h) ==
    /\ hpc[h] = "inserted"
    /\ REQUESTS' = trim(REQUESTS)
    /\ status' = 200
    /\ hpc' = [hpc EXCEPT ![h] = "idle"]
    /\ UNCHANGED <<auth, authArg, captures, response>>
    /\ UNCHANGED <<brokerVars, prodVars, consVars>>

\* list_requests, taken by the server
Get(h) ==
    /\ hpc[h] = "get"
    /\ Free(h)
    /\ \E header \in AuthHeaders :
          IF ~auth_middleware(header)
          THEN /\ status' = 403
               /\ UNCHANGED response
          ELSE /\ status' = 200
               /\ response' = [at |-> captures, body |-> REQUESTS]
    /\ hpc' = [hpc EXCEPT ![h] = "idle"]
    /\ UNCHANGED <<REQUESTS, auth, authArg, captures>>
    /\ UNCHANGED <<brokerVars, prodVars, consVars>>

\* ---------------------------------------------------------- specifications
\* Producer, consumers and broker, the broker being up.
Next ==
    \/ ProducerWake
    \/ ProducerConnect
    \/ ProducerDeclare
    \/ ProducerListLog
    \/ ProducerList
    \/ ProducerPublish
    \/ ProducerFinish
    \/ \E sig \in Signals : ProducerSignal(sig)
    \/ \E c \in Consumers : ConsumerWake(c)
    \/ \E c \in Consumers : ConsumerConnect(c)
    \/ \E c \in Consumers : ConsumerSubscribe(c)
    \/ \E c \in Consumers : BrokerDeliver(c)
    \/ \E c \in Consumers : ConsumerReceive(c)
    \/ \E c \in Consumers : ConsumerSpawn(c)
    \/ \E c \in Consumers : WorkerExit(c)
    \/ \E c \in Consumers : ConsumerAck(c)
    \/ \E c \in Consumers, sig \in Signals : ConsumerSignal(c, sig)

Spec == Init /\ [][Next]_vars

\* Processes that are running take their next step, the broker delivers to a
\* consumer that can take a message, and a worker that was started exits;
\* signals may or may not come.
Fairness ==
    /\ WF_vars(ProducerWake)
    /\ WF_vars(ProducerConnect)
    /\ WF_vars(ProducerDeclare)
    /\ WF_vars(ProducerListLog)
    /\ WF_vars(ProducerList)
    /\ WF_vars(ProducerPublish)
    /\ WF_vars(ProducerFinish)
    /\ \A c \in Consumers :
          /\ WF_vars(ConsumerWake(c))
          /\ WF_vars(ConsumerConnect(c))
          /\ WF_vars(ConsumerSubscribe(c))
          /\ WF_vars(BrokerDeliver(c))
          /\ WF_vars(ConsumerReceive(c))
          /\ WF_vars(ConsumerSpawn(c))
          /\ WF_vars(WorkerExit(c))
          /\ WF_vars(ConsumerAck(c))

FairSpec == Init /\ [][Next]_vars /\ Fairness

\* Connection establishment, the broker starting while the programs retry.
ConnNext ==
    \/ BrokerStart
    \/ ProducerWake
    \/ ProducerConnect
    \/ ProducerRetryWait
    \/ ProducerDeclare
    \/ \E sig \in Signals : ProducerSignal(sig)
    \/ \E c \in Consumers : ConsumerWake(c)
    \/ \E c \in Consumers : ConsumerConnect(c)
    \/ \E c \in Consumers : ConsumerRetryWait(c)
    \/ \E c \in Consumers : ConsumerSubscribe(c)
    \/ \E c \in Consumers, sig \in Signals : ConsumerSignal(c, sig)

\* A running process is scheduled: an attempt that can be made is made, a
\* retry delay that has started ends.
ConnFairness ==
    /\ WF_vars(ProducerConnect)
    /\ WF_vars(ProducerRetryWait)
    /\ \A c \in Consumers : WF_vars(ConsumerConnect(c))
    /\ \A c \in Consumers : WF_vars(ConsumerRetryWait(c))

ConnSpec == ConnInit /\ [][ConnNext]_vars /\ ConnFairness

\* The consumers on a queue that other clients publish to, no producer run.
IntakeInit ==
    /\ brokerUp = TRUE
    /\ InitClients(0)
    /\ InitServer(FALSE, "")

IntakeNext ==
    \/ \E body \in ForeignBodies : ForeignPublish(body)
    \/ \E c \in Consumers : ConsumerWake(c)
    \/ \E c \in Consumers : ConsumerConnect(c)
    \/ \E c \in Consumers : ConsumerSubscribe(c)
    \/ \E c \in Consumers : BrokerDeliver(c)
    \/ \E c \in Consumers : ConsumerReceive(c)
    \/ \E c \in Consumers : ConsumerSpawn(c)
    \/ \E c \in Consumers : WorkerExit(c)
    \/ \E c \in Consumers : ConsumerAck(c)

IntakeSpec == IntakeInit /\ [][IntakeNext]_vars

\* The callback server alone, with or without a token.
SinkInit ==
    /\ brokerUp = TRUE
    /\ InitClients(0)
    /\ \E run_async \in BOOLEAN, token \in {"", "secret123"} :
          InitServer(run_async, token)

SinkNext ==
    \/ \E method \in Methods, header \in AuthHeaders, notify \in NotifyCases :
          post_request(method, header, notify)
    \/ \E header \in AuthHeaders : list_requests(header)

SinkSpec == SinkInit /\ [][SinkNext]_vars

\* The callback server with several clients sending at once, no token set.
ServeInit ==
    /\ brokerUp = TRUE
    /\ InitClients(0)
    /\ InitServer(FALSE, "")

ServeNext ==
    \/ \E h \in Handlers, method \in Methods \cup {"GET"} : ClientSend(h, method)
    \/ \E h \in Handlers : PostInsert(h)
    \/ \E h \in Handlers : PostTrim(h)
    \/ \E h \in Handlers : Get(h)

ServeSpec == ServeInit /\ [][ServeNext]_vars

\* ------------------------------------------------------------------ claims
IsPrefix(s, t) == Len(s) <= Len(t) /\ \A i \in 1..Len(s) : s[i] = t[i]

\* the steps of one job before its acknowledgment, in the order of the code
StepOrder == <<"deliver", "config", "start", "exit">>

\* consumer c acknowledges a delivery in this step
Acks(c) == cpc'[c] # "exited" /\ Len(unacked'[c]) < Len(unacked[c])

\* the broker delivers a message to consumer c in this step
Delivers(c) == Len(unacked'[c]) > Len(unacked[c])

\* C1: in every reachable state each consumer holds at most one delivered but
\* unacknowledged message, however many messages are queued and however many
\* consumers share the queue.
C1_OneUnacked == \A c \in Consumers : Len(unacked[c]) <= 1

\* C1 witness: a subscribed consumer with prefetch 1 holds one unacknowledged
\* message while another message waits in the queue.
C1_Witness ==
    \E c \in Consumers :
        /\ Subscribed(c)
        /\ prefetch[c] = 1
        /\ Len(unacked[c]) = 1
        /\ queue # <<>>

\* C2: a delivered message is acknowledged if and only if the worker invoked
\* for it has returned: an ack is sent only with the worker's exit behind it,
\* and once the worker has returned the handler ends (other than by a signal
\* killing the process) with the ack, whatever the exit status.
C2_AckIffWorkerReturned ==
    [][\A c \in Consumers :
          /\ Acks(c) => (steps[c] = StepOrder /\ workers[c] = {})
          /\ (steps[c] = StepOrder /\ steps'[c] # steps[c] /\ ccause'[c] # "signal")
                => Acks(c)]_vars

\* C3: when the worker has exited non-zero, the handler ends (other than by a
\* signal killing the process) with the message acknowledged, nothing put
\* back on the queue, no worker running, and the consumer waiting for the
\* next message.
C3_NonZeroExitAcked ==
    [][\A c \in Consumers :
          (cpc[c] = "log" /\ rc[c] # 0 /\ cpc'[c] # "log" /\ ccause'[c] # "signal")
             => /\ Acks(c)
                /\ queue' = queue
                /\ workers'[c] = {}
                /\ cpc'[c] = "waiting"]_vars

\* C4: within one consumer the steps of a job happen in the order delivery,
\* config write, worker start, worker exit, ack; a message is delivered to the
\* consumer only when no job of it is under way, the ack is sent only after
\* the four steps before it, and its worker never runs for two jobs at once.
C4_Sequential ==
    /\ [](\A c \in Consumers :
            /\ IsPrefix(steps[c], StepOrder)
            /\ Cardinality(workers[c]) <= 1)
    /\ [][\A c \in Consumers :
            /\ Delivers(c) => (steps[c] = <<>> /\ cur[c] = NoMsg /\ workers[c] = {})
            /\ Acks(c) => steps[c] = StepOrder]_vars

\* C4 witness: a consumer that has already written the config of one job has
\* just been delivered another job.
C4_Witness ==
    \E c \in Consumers :
        /\ steps[c] = <<"deliver">>
        /\ unacked[c] # <<>>
        /\ config[c] # NoConfig
        /\ config[c].fetch_url # json_loads(Head(unacked[c]))["url"]

\* the keys of 1..n outside `failed`, in increasing order
Surviving(n, failed) ==
    LET S == (1..n) \ failed
    IN  [i \in 1..Cardinality(S) |->
            CHOOSE k \in S : Cardinality({j \in S : j < k}) = i - 1]

InConnect(pc) == pc \in {"connecting", "retry_wait"}

\* C6: connection establishment never ends in a connection failure: a process
\* is past make_connection only with an open connection to a broker that is
\* up, nothing is declared while the broker is down, a process leaves the
\* retry loop without a connection only by a signal, and with the broker up
\* every process in the retry loop leaves it.
C6_ConnectRetries ==
    /\ [](/\ pcause # "connfail"
          /\ \A c \in Consumers : ccause[c] # "connfail"
          /\ ppc \in {"declare", "list_log", "list", "publish"}
                => (pconn = "open" /\ brokerUp)
          /\ \A c \in Consumers :
                cpc[c] \in {"channel", "waiting", "spawn", "worker", "log"}
                   => (cconn[c] = "open" /\ brokerUp)
          /\ ~brokerUp => ~queueDeclared
          /\ (ppc = "exited" /\ pconn = "none") => pcause = "signal"
          /\ \A c \in Consumers :
                (cpc[c] = "exited" /\ cconn[c] = "none") => ccause[c] = "signal")
    /\ (brokerUp /\ InConnect(ppc)) ~> ~InConnect(ppc)
    /\ \A c \in Consumers : (brokerUp /\ InConnect(cpc[c])) ~> ~InConnect(cpc[c])

\* C6 witness: the broker still down, the producer waits to retry and a
\* consumer waits to retry after MaxFails failed attempts.
C6_Witness ==
    /\ ~brokerUp
    /\ ppc = "retry_wait"
    /\ \E c \in Consumers : cpc[c] = "retry_wait" /\ fails[c] = MaxFails

\* C7: a process ended by a signal has had its broker connection closed by the
\* shutdown routine: no connection is left open.
C7_SignalShutdownCloses ==
    /\ pcause = "signal" => pconn # "open"
    /\ \A c \in Consumers : ccause[c] = "signal" => cconn[c] # "open"

\* C8: the exit code is 0 exactly for the clean terminations: a signal or the
\* completed batch gives 0, an uncaught error gives a non-zero code.
C8_ExitCodes ==
    /\ ppc = "exited" => (pexit = 0 <=> pcause \in {"signal", "completed"})
    /\ \A c \in Consumers :
          cpc[c] = "exited" => (cexit[c] = 0 <=> ccause[c] = "signal")

\* C9: a producer run that obtained a connection ends with it closed; nothing
\* is published on a closed connection (closed only at the exit); the
\* messages published are jobs 1..k.
C9_ProducerEndsClosed ==
    /\ (ppc = "exited" /\ pconn # "none") => pconn = "closed"
    /\ pconn = "closed" => ppc = "exited"
    /\ \A i \in DOMAIN published : json_loads(published[i])["jobId"] = str(i)

\* the min(n, 100) most recent of n stored requests, newest first
Recent(n) == [i \in 1..Min(n, MaxRequests) |-> n - i + 1]

\* C10: the stored list is the min(n, 100) most recent of the n accepted
\* requests, newest first, never longer than 100, and so is every answer of
\* GET /.
C10_NewestFirstCapped ==
    /\ Len(REQUESTS) <= MaxRequests
    /\ REQUESTS = Recent(captures)
    /\ response.body = Recent(response.at)

\* C10 witness: GET / answered after more than 100 stored requests.
C10_Witness ==
    /\ captures > MaxRequests
    /\ response.at > MaxRequests
    /\ Len(response.body) = MaxRequests

\* C11: requests that arrive together are handled one after the other, so the
\* insert and the trim of a POST are one step for every other request: at most
\* one handler is between the two, every answer of GET / is the min(n, 100)
\* most recent of the n entries stored so far, never longer than 100, and the
\* list loses an entry only by the eviction of the oldest.
C11_InsertTrimAtomic ==
    /\ Cardinality({h \in Handlers : hpc[h] = "inserted"}) <= 1
    /\ Len(response.body) <= MaxRequests
    /\ response.body = Recent(response.at)
    /\ trim(REQUESTS) = Recent(captures)
    /\ (\A h \in Handlers : hpc[h] # "inserted") => REQUESTS = Recent(captures)
    /\ REQUESTS # <<>> => Head(REQUESTS) = captures

\* C11 witness: a POST has inserted the 101st entry and not yet trimmed, while
\* another client's request is waiting, after a GET answered past the cap.
C11_Witness ==
    /\ Len(REQUESTS) = MaxRequests + 1
    /\ response.at >= MaxRequests
    /\ \E h, g \in Handlers :
          hpc[h] = "inserted" /\ hpc[g] \in {"get", "post"}

\* C12: when run_server was given a token, a request on / whose Authorization
\* header is not exactly "Bearer <token>", or that has none, is answered 403
\* and changes neither the capture list nor what GET / last returned; when it
\* was given no token, no request is answered 403.
C12_BearerAuth ==
    [][/\ \A header \in AuthHeaders :
             (authArg # "" /\ header # Bearer(authArg)) =>
                 /\ \A method \in Methods, notify \in NotifyCases :
                        post_request(method, header, notify) =>
                            (status' = 403 /\ REQUESTS' = REQUESTS)
                 /\ list_requests(header) =>
                        (status' = 403 /\ response' = response)
       /\ authArg = "" => status' # 403]_vars

\* C13: an authorised POST or PUT that carries the post-notification flag is
\* stored at the head of the capture list and answered 200, whether the
\* outbound GET answers, raises, has no action URL, or has no id parameter.
C13_NotifyIsolated ==
    [][\A method \in Methods, header \in AuthHeaders,
         notify \in NotifyCases \ {"none"} :
          (auth_middleware(header) /\ post_request(method, header, notify)) =>
              /\ status' = 200
              /\ captures' = captures + 1
              /\ REQUESTS' # <<>>
              /\ Head(REQUESTS') = captures']_vars

\* a body that does not parse, or that lacks jobId or url
Malformed(text) ==
    \/ \E i \in DOMAIN text : Len(text[i]) # 2
    \/ ~({"jobId", "url"} \subseteq {text[i][1] : i \in DOMAIN text})

\* C14: a consumer that takes up a malformed message ends there with a fault:
\* the process exits non-zero, the config file is left as it was, no worker
\* is started, no ack is sent, and the message is back at the head of the
\* queue; no config is ever written and no worker ever run for such a body.
C14_MalformedIsFatal ==
    /\ [](\A c \in Consumers :
            /\ \A m \in workers[c] : ~Malformed(m)
            /\ cur[c] # NoMsg => ~Malformed(cur[c]))
    /\ [][\A c \in Consumers :
            (/\ cpc[c] = "waiting"
             /\ unacked[c] # <<>>
             /\ Malformed(Head(unacked[c]))
             /\ <<cpc[c], unacked[c]>>' # <<cpc[c], unacked[c]>>) =>
                /\ cpc'[c] = "exited"
                /\ ccause'[c] = "error"
                /\ cexit'[c] # 0
                /\ config' = config
                /\ workers' = workers
                /\ ~Acks(c)
                /\ queue' = unacked[c] \o queue]_vars

\* C14 witness: a consumer that never wrote a config has ended with a fault
\* and the malformed message it held is back in the queue.
C14_Witness ==
    \E c \in Consumers :
        /\ cpc[c] = "exited"
        /\ ccause[c] = "error"
        /\ config[c] = NoConfig
        /\ queue # <<>>
        /\ Malformed(Head(queue))

Range(s) == {s[i] : i \in DOMAIN s}

\* the number of places, in the queue or among the unacknowledged deliveries
\* of the consumers, where the broker holds message m
Occurrences(m) ==
    Cardinality({i \in DOMAIN queue : queue[i] = m})
    + Cardinality({p \in UNION {{<<c, i>> : i \in DOMAIN unacked[c]} : c \in Consumers} :
                      unacked[p[1]][p[2]] = m})

\* consumer c's process ends in this step
Stops(c) == cpc[c] # "exited" /\ cpc'[c] = "exited"

\* C15 as stated: a published job is held in one place at most, is gone once
\* acknowledged, and is delivered once only: the queue gains a message by
\* publication alone, never a message that was already delivered, so that
\* the worker, started once per delivery, runs once per job.
C15_ExactlyOnce ==
    /\ [](\A m \in Range(published) : Occurrences(m) <= 1)
    /\ [][/\ \A c \in Consumers :
              Acks(c) => \A i \in DOMAIN published :
                            published[i] = Head(unacked[c]) => Occurrences(published[i])' = 0
          /\ \A c \in Consumers :
              workers'[c] # workers[c] /\ workers[c] \subseteq workers'[c]
                 => steps[c] = <<"deliver", "config">>
          /\ Range(queue') \ Range(queue) \subseteq Range(published') \ Range(published)]_vars

\* C15 amended: a published job is held in one place at most and is gone once
\* acknowledged; the worker is started once per delivery, for the message the
\* consumer holds; the queue gains a message by publication, or, a message
\* delivered before, only in a step in which the consumer holding it
\* unacknowledged stops, so a job is delivered and run again only then.
C15_OncePerDelivery ==
    /\ [](/\ \A m \in Range(published) : Occurrences(m) <= 1
          /\ \A c \in Consumers : cpc[c] = "worker" => unacked[c] = <<cur[c]>>)
    /\ [][/\ \A c \in Consumers :
              Acks(c) => \A i \in DOMAIN published :
                            published[i] = Head(unacked[c]) => Occurrences(published[i])' = 0
          /\ \A c \in Consumers :
              workers'[c] # workers[c] /\ workers[c] \subseteq workers'[c]
                 => steps[c] = <<"deliver", "config">>
          /\ \A m \in Range(queue') \ Range(queue) :
                \/ m \in Range(published') \ Range(published)
                \/ \E c \in Consumers : Stops(c) /\ m \in Range(unacked[c])]_vars

\* C15 witness: a job is run by the worker of one consumer after the consumer
\* that ran it first stopped without acknowledging it.
C15_Witness ==
    \E c, d \in Consumers :
        /\ c # d
        /\ cpc[c] = "exited"
        /\ cpc[d] = "worker"
        /\ cur[d] \in workers[c]
        /\ cur[d] \in workers[d]

\* C16: a declaration of the queue by the producer or by a consumer when the
\* queue already exists does not fail and leaves the queued messages as they
\* are, in whichever order the programs start; a consumer that has
\* subscribed and holds nothing can be handed the job at the head of the
\* queue, whenever that job was published.
C16_DeclareIdempotent ==
    /\ [](/\ pcause = "error" => ppc # "exited" \/ pconn # "open"
          /\ \A c \in Consumers :
                (cpc[c] = "waiting" /\ unacked[c] = <<>> /\ queue # <<>>)
                   => ENABLED BrokerDeliver(c))
    /\ [][/\ (queueDeclared /\ ppc = "declare" /\ ppc' # ppc /\ pcause' # "signal")
              => (ppc' = "list_log" /\ queueDeclared' /\ queue' = queue)
          /\ \A c \in Consumers :
              (queueDeclared /\ cpc[c] = "channel" /\ cpc'[c] # "channel"
                 /\ ccause'[c] # "signal")
                 => (cpc'[c] = "waiting" /\ queueDeclared' /\ queue' = queue)]_vars

\* C16 witness: the producer has published its batch and ended, a consumer
\* has declared the same queue, and the first job has been delivered to it
\* while the rest of the batch is still queued.
C16_Witness ==
    /\ pcause = "completed"
    /\ Len(published) >= 2
    /\ \E c \in Consumers :
          /\ unacked[c] = <<published[1]>>
          /\ queue = Tail(published)
          /\ \A d \in Consumers \ {c} : cpc[d] = "sleep"

\* C17 as stated: when the worker has failed (exited non-zero) the consumer
\* sends no ack for the message, and a running consumer never hands a
\* message back to the queue.
C17_NoAckOnFailure ==
    [][\A c \in Consumers :
          /\ (cpc[c] = "log" /\ rc[c] # 0) => ~Acks(c)
          /\ (Len(unacked'[c]) < Len(unacked[c]) /\ ~Stops(c)) => queue' = queue]_vars

\* C17 amended: the worker's failure does not change the acknowledgment: a
\* handler that finishes after a non-zero exit has sent the ack; a running
\* consumer never hands a message back to the queue (no nack, no requeue);
\* no ack is sent only when the handler itself faults, at the spawn or at the
\* logging of the output, and then the process ends and the broker puts the
\* message back.
C17_FailureStillAcked ==
    [][\A c \in Consumers :
          /\ (cpc[c] = "log" /\ rc[c] # 0 /\ cpc'[c] # "log" /\ ~Stops(c))
                => (Acks(c) /\ cpc'[c] = "waiting")
          /\ (Len(unacked'[c]) < Len(unacked[c]) /\ ~Stops(c)) => queue' = queue
          /\ (cpc[c] \in {"spawn", "log"} /\ Stops(c) /\ ccause'[c] \in {"spawn", "error"})
                => (~Acks(c) /\ queue' = unacked[c] \o queue)]_vars

\* C17 witness: the worker of a consumer has exited non-zero and the handler
\* has still to finish, the message unacknowledged.
C17_Witness ==
    \E c \in Consumers :
        /\ cpc[c] = "log"
        /\ rc[c] # 0
        /\ steps[c] = StepOrder
        /\ unacked[c] = <<cur[c]>>

\* C18: while a worker started by consumer c runs for job J, the config file
\* of c holds the configuration of J: J's fetch URL, the callback server as
\* notification target, the fixed type, language and contents.  It held it
\* already when the worker was started, and it is rewritten only when no
\* worker of c is running.
C18_ConfigMatchesJob ==
    /\ [](\A c \in Consumers : \A J \in workers[c] :
            /\ config[c].type = "transcription"
            /\ config[c].language = "en"
            /\ config[c].fetch_url = json_loads(J)["url"]
            /\ config[c].notify_url = CallbackServer
            /\ config[c].contents = <<"transcript.txt", "transcript.json-v2">>)
    /\ [][\A c \in Consumers :
            /\ \A J \in workers'[c] \ workers[c] :
                  /\ config[c].fetch_url = json_loads(J)["url"]
                  /\ config'[c] = config[c]
            /\ config'[c] # config[c] => workers[c] = {}]_vars

\* C18 witness: a consumer that has finished the first job, alone, runs the
\* worker for the second one, the config file rewritten for it.
C18_Witness ==
    /\ Len(published) >= 2
    /\ Occurrences(published[1]) = 0
    /\ \E c \in Consumers :
          /\ cpc[c] = "worker"
          /\ workers[c] = {published[2]}
          /\ config[c].fetch_url = json_loads(published[2])["url"]
          /\ \A d \in Consumers \ {c} : cpc[d] = "sleep"

\* the i-th published job waits in the queue
Queued(i) == i \in DOMAIN published /\ published[i] \in Range(queue)

\* the i-th published job is held, delivered and unacknowledged, by consumer c
Held(i, c) == i \in DOMAIN published /\ published[i] \in Range(unacked[c])

\* a worker started by consumer c runs the i-th published job
Running(i, c) == i \in DOMAIN published /\ published[i] \in workers[c]

\* C19: when a consumer stops holding an unacknowledged job, by fault or by
\* signal, the broker puts the job back at the head of the queue and the
\* worker it had started is left running; a published job leaves the broker
\* only by an ack; a job waiting in the queue is delivered (again) unless no
\* consumer is left, and a consumer holding it starts the worker for it,
\* whether or not it was run before, unless the consumer stops first.
C19_RedeliveredAfterStop ==
    /\ [][/\ \A c \in Consumers :
              (Stops(c) /\ unacked[c] # <<>>) =>
                 (queue' = unacked[c] \o queue /\ workers'[c] = workers[c])
          /\ \A m \in Range(published) :
              (Occurrences(m) = 1 /\ Occurrences(m)' = 0) =>
                 \E c \in Consumers : Acks(c) /\ Head(unacked[c]) = m]_vars
    /\ \A i \in 1..MaxObjects :
          Queued(i) ~> ((\E c \in Consumers : Held(i, c))
                          \/ \A c \in Consumers : cpc[c] = "exited")
    /\ \A i \in 1..MaxObjects : \A c \in Consumers :
          (Held(i, c) /\ cpc[c] = "waiting") ~> (Running(i, c) \/ cpc[c] = "exited")

\* C19 witness: a consumer was ended by a signal while its worker ran a job;
\* that worker still runs, and the job, delivered to another consumer, has
\* been run there a second time.
C19_Witness ==
    \E c, d \in Consumers :
        /\ ccause[c] = "signal"
        /\ cpc[d] = "log"
        /\ cur[d] \in workers[c]
        /\ unacked[d] = <<cur[d]>>

\* C20: if no process is ever signalled and every worker can be started (all
\* bodies are the producer's, every started worker exits, every consumer
\* connects), then from some point on the queue is empty and no delivery is
\* unacknowledged: every published job has been acknowledged; and a consumer
\* waiting on the empty queue leaves its loop only by a signal.
C20_Progress ==
    /\ ([](pcause # "signal" /\ \A c \in Consumers : ccause[c] \notin {"signal", "spawn"}))
          => <>[](queue = <<>> /\ \A c \in Consumers : unacked[c] = <<>>)
    /\ [][\A c \in Consumers :
            (cpc[c] = "waiting" /\ unacked[c] = <<>> /\ cpc'[c] # "waiting")
               => ccause'[c] = "signal"]_vars

====
